---- MODULE Spec2Model ----
(***************************************************************************)
(* The command line layer of Trae Agent (src/trae_agent/cli.py): the       *)
(* single-shot `run` command and the `interactive` session, as one         *)
(* process whose position in the command's code is `pc`.  The agent, the   *)
(* configuration file, the input stream and the operating system are       *)
(* collaborators: each call into them returns or raises, chosen            *)
(* nondeterministically.                                                   *)
(***************************************************************************)
EXTENDS Integers, Sequences, FiniteSets, TLC

VARIABLES
    mode,             \* which click command the process runs: "run" | "interactive"
    pc,               \* position in the command's code; "done" once the process ended
    opts,             \* the command's options as click parsed them
    env,              \* os.environ, restricted to the credential variables
    fs,               \* what the file system holds under the --config-file path
    cwd,              \* the process-wide current directory (os.getcwd())
    task,             \* local `task`: the task text (a string as a sequence of characters)
    working_dir,      \* local `working_dir` (optional string)
    config,           \* local `config` (optional Config)
    agent,            \* local `agent`: "none" until TraeAgent(config) returned
    trajectory_path,  \* local `trajectory_path` (optional path)
    submitted,        \* the Task Request agent.new_task last received (optional)
    trajectories,     \* the trajectory path of each task submitted so far, in order
    out,              \* console lines printed since the last task prompt (or process start)
    calls,            \* collaborator calls since the last task prompt (or process start)
    ctorCalls,        \* TraeAgent(config) invocations of this process
    nSetups,          \* setup_trajectory_recording invocations of this process
    nInputs,          \* input() calls of this process
    lastInput,        \* what the most recent input() call produced (optional event)
    exit_status       \* the process exit status (optional integer)

vars == <<mode, pc, opts, env, fs, cwd, task, working_dir, config, agent, trajectory_path,
          submitted, trajectories, out, calls, ctorCalls, nSetups, nInputs, lastInput,
          exit_status>>

-----------------------------------------------------------------------------
(* Optional values: Python's None is the empty tuple, a value v is <<v>>.  *)

None == <<>>
Some(v) == <<v>>
IsNone(o) == o = <<>>
Val(o) == o[1]

(* Strings the code inspects character by character (str.lower, equality   *)
(* with a command word, truthiness) are sequences of one-character strings.*)

S_exit == <<"e", "x", "i", "t">>
S_EXIT == <<"E", "X", "I", "T">>
S_quit == <<"q", "u", "i", "t">>
S_Quit == <<"Q", "u", "i", "t">>
S_help == <<"h", "e", "l", "p">>
S_status == <<"s", "t", "a", "t", "u", "s">>
S_Status == <<"S", "t", "a", "t", "u", "s">>
S_clear == <<"c", "l", "e", "a", "r">>
S_empty == <<>>
S_fix == <<"f", "i", "x">>
S_proj == <<"/", "p">>
S_cwd == <<"/", "c">>
S_filetext == <<"b", "u", "g">>

LowerChar(c) ==
    CASE c = "A" -> "a" [] c = "C" -> "c" [] c = "E" -> "e" [] c = "H" -> "h"
      [] c = "I" -> "i" [] c = "L" -> "l" [] c = "P" -> "p" [] c = "Q" -> "q"
      [] c = "R" -> "r" [] c = "S" -> "s" [] c = "T" -> "t" [] c = "U" -> "u"
      [] c = "X" -> "x" [] OTHER -> c

\* str.lower()
Lower(s) == [i \in 1..Len(s) |-> LowerChar(s[i])]

\* Python truthiness of an optional string: None and "" are falsy.
Truthy(o) == ~IsNone(o) /\ Val(o) # <<>>

\* The same for a plain string value.
TruthyStr(o) == ~IsNone(o) /\ Val(o) # ""

-----------------------------------------------------------------------------
(* Outcomes of a call into a collaborator.  EOFError is a subclass of      *)
(* Exception; KeyboardInterrupt is not.                                    *)

Ok == "ok"
Raised == {"Exception", "EOFError", "KeyboardInterrupt"}
Outcomes == {Ok} \cup Raised
IsException(e) == e \in {"Exception", "EOFError"}

-----------------------------------------------------------------------------
(* Configuration.  A Config is [default_provider, model_providers,         *)
(* max_steps]; model_providers is a function from provider identifiers to  *)
(* Provider Settings.  temperature and top_p are in tenths.                *)

Settings(m, k) ==
    [model |-> m, api_key |-> k, max_tokens |-> 4096, temperature |-> 5,
     top_p |-> 10, top_k |-> 0]

\* The built-in defaults a Config has when its file does not exist.
DefaultConfig ==
    [default_provider |-> Some("openai"),
     model_providers |-> [p \in {"openai"} |-> Settings(Some("gpt-4o"), None)],
     max_steps |-> Some(20)]

\* What the file system holds under each config-file path.
ConfigFileContent(path) ==
    CASE path = "absent.json" -> [kind |-> "missing"]
      [] path = "malformed.json" -> [kind |-> "malformed"]
      [] path = "trae_config.json" ->
            [kind |-> "valid",
             cfg |-> [default_provider |-> Some("anthropic"),
                      model_providers |->
                          [p \in {"anthropic", "openai"} |->
                              IF p = "anthropic"
                              THEN Settings(Some("claude"), Some("sk-file"))
                              ELSE [Settings(Some("gpt-4o"), None)
                                        EXCEPT !.max_tokens = 8192, !.temperature = 7]],
                      max_steps |-> Some(10)]]
      [] path = "partial.json" ->
            [kind |-> "valid",
             cfg |-> [default_provider |-> None,
                      model_providers |->
                          [p \in {"anthropic"} |-> Settings(None, Some(""))],
                      max_steps |-> None]]

\* Config(config_file): a missing file yields the defaults, a structurally
\* invalid one raises.
ReadConfigFrom(f) ==
    CASE f.kind = "missing" -> [ok |-> TRUE, config |-> DefaultConfig]
      [] f.kind = "malformed" -> [ok |-> FALSE, error |-> "ConfigError"]
      [] f.kind = "valid" -> [ok |-> TRUE, config |-> f.cfg]

ReadConfig(path) == ReadConfigFrom(ConfigFileContent(path))

\* A source holds a value when it is non-null and non-empty.
Defined(o) == ~IsNone(o) /\ Val(o) # ""
DefinedInt(o) == ~IsNone(o)

\* os.getenv(name) for an optional variable name
GetEnv(e, name) ==
    IF IsNone(name) \/ Val(name) \notin DOMAIN e THEN None ELSE Some(e[Val(name)])

\* resolve_config_value(cli_value, config_value, env_var=None): the first
\* defined value in the order CLI, config file, environment; else None.
ResolveConfigValue(cli_value, config_value, env_var, e) ==
    IF Defined(cli_value) THEN cli_value
    ELSE IF Defined(config_value) THEN config_value
    ELSE IF Defined(GetEnv(e, env_var)) THEN GetEnv(e, env_var)
    ELSE None

\* resolve_config_value on integer settings (no environment source)
ResolveConfigInt(cli_value, config_value) ==
    IF DefinedInt(cli_value) THEN cli_value
    ELSE IF DefinedInt(config_value) THEN config_value
    ELSE None

\* env_var_map.get(provider)
EnvVarMap(provider) ==
    CASE provider = "openai" -> Some("OPENAI_API_KEY")
      [] provider = "anthropic" -> Some("ANTHROPIC_API_KEY")
      [] provider = "azure" -> Some("AZURE_API_KEY")
      [] provider = "openrouter" -> Some("OPENROUTER_API_KEY")
      [] provider = "doubao" -> Some("DOUBAO_API_KEY")
      [] provider = "google" -> Some("GOOGLE_API_KEY")
      [] OTHER -> None

ResolvedProvider_FilePreferred(provider, cfg, e) ==
    LET r == ResolveConfigValue(cfg.default_provider, provider, None, e) IN
    IF TruthyStr(r) THEN Val(r) ELSE "openai"

\* `resolve_config_value(provider, config.default_provider) or "openai"`
ResolvedProvider(provider, cfg, e) ==
    LET r == ResolveConfigValue(provider, cfg.default_provider, None, e) IN
    IF TruthyStr(r) THEN Val(r) ELSE "openai"

\* The provider lookup config.model_providers[resolved_provider] succeeds.
HasProvider(cfg, p) == p \in DOMAIN cfg.model_providers

ProviderLookupFailure_Ignored(cfg, p) ==
    [ok |-> TRUE, config |-> [cfg EXCEPT !.default_provider = Some(p)]]

\* config.model_providers[resolved_provider] for a provider without a
\* settings entry raises KeyError.
ProviderLookupFailure(cfg, p) == [ok |-> FALSE, error |-> "KeyError"]

ApplyOverrides_AllProviders(mps, p, mp) == [q \in DOMAIN mps |-> mp]

\* model_parameters is the settings entry of the resolved provider: the
\* assignments to it change that entry of config.model_providers alone.
ApplyOverrides(mps, p, mp) == [mps EXCEPT ![p] = mp]

\* config.max_steps = int(resolved_max_steps)
MaxStepsAssigned(n) == n

\* load_config(provider, model, api_key, config_file, max_steps): the
\* returned Config, or the error it raises.
load_config(provider, model, api_key, config_file, max_steps, e) ==
    LET rd == ReadConfig(config_file) IN
    IF ~rd.ok THEN [ok |-> FALSE, error |-> rd.error]
    ELSE
      LET c0 == rd.config
          rp == ResolvedProvider(provider, c0, e)
      IN
      IF ~HasProvider(c0, rp) THEN ProviderLookupFailure(c0, rp)
      ELSE
        LET mp0 == c0.model_providers[rp]
            resolved_model == ResolveConfigValue(model, mp0.model, None, e)
            mp1 == IF ~IsNone(resolved_model)
                   THEN [mp0 EXCEPT !.model = resolved_model] ELSE mp0
            resolved_api_key ==
                ResolveConfigValue(api_key, mp0.api_key, EnvVarMap(rp), e)
            mp2 == IF ~IsNone(resolved_api_key)
                   THEN [mp1 EXCEPT !.api_key = resolved_api_key] ELSE mp1
            resolved_max_steps == ResolveConfigInt(max_steps, c0.max_steps)
        IN
        [ok |-> TRUE,
         config |->
            [default_provider |-> Some(rp),
             model_providers |-> ApplyOverrides(c0.model_providers, rp, mp2),
             max_steps |-> IF ~IsNone(resolved_max_steps)
                           THEN MaxStepsAssigned(resolved_max_steps)
                           ELSE c0.max_steps]]

-----------------------------------------------------------------------------
(* The process: options, console, collaborator calls.                      *)

MaxInputs == 4

ProviderOpts == {None, Some("anthropic"), Some("nope")}
ConfigFiles == {"absent.json", "malformed.json", "trae_config.json", "partial.json"}
TrajectoryFileOpts == {None, Some("traj.json")}
WorkingDirOpts == {None, Some(S_proj)}
PatchPathOpts == {None, Some("/tmp/p.diff")}
EnvNone == [v \in {} |-> ""]
EnvOpenai == [v \in {"OPENAI_API_KEY"} |-> "sk-test"]
Envs == {EnvNone, EnvOpenai}

\* The lines the user can type, at the task prompt and at the
\* working-directory prompt alike.
Lines == {S_exit, S_EXIT, S_Quit, S_help, S_status, S_Status, S_clear, S_empty,
          S_fix, S_proj}

\* What one input() call produces: a line, end of input (EOFError) or a
\* user interruption (KeyboardInterrupt).
LineEvent(l) == [kind |-> "line", text |-> l]
EofEvent == [kind |-> "EOFError", text |-> <<>>]
IntEvent == [kind |-> "KeyboardInterrupt", text |-> <<>>]
InputEvents(n) ==
    IF n < MaxInputs
    THEN {LineEvent(l) : l \in Lines} \cup {EofEvent, IntEvent}
    ELSE {EofEvent}

\* One console.print: its style, its text and the value it interpolates.
Msg(style, text, arg) == <<style, text, arg>>
Call(fn, res) == [fn |-> fn, res |-> res]

\* The path as text, "None" for an unset one (f-string interpolation).
PathText(o) == IF IsNone(o) THEN "None" ELSE Val(o)

\* Paths setup_trajectory_recording generates, by the time of the call.
GeneratedPaths ==
    <<"trajectory_t1.json", "trajectory_t2.json", "trajectory_t3.json",
      "trajectory_t4.json", "trajectory_t5.json", "trajectory_t6.json">>

\* agent.setup_trajectory_recording(path): an explicit path verbatim, else a
\* generated run-unique one; n is the number of this call.
SetupTrajectoryRecording(path, n) ==
    IF ~IsNone(path) THEN Val(path)
    ELSE IF n <= Len(GeneratedPaths) THEN GeneratedPaths[n] ELSE "trajectory_later.json"

RunOpts ==
    [provider : ProviderOpts, model : {None}, api_key : {None}, max_steps : {None},
     working_dir : WorkingDirOpts, must_patch : BOOLEAN, config_file : ConfigFiles,
     trajectory_file : TrajectoryFileOpts, patch_path : PatchPathOpts, task : {S_fix}]

\* interactive has no task, working-dir, must-patch or patch-path option;
\* its --max-steps defaults to 20.
InteractiveOpts ==
    [provider : ProviderOpts, model : {None}, api_key : {None}, max_steps : {Some(20)},
     working_dir : {None}, must_patch : {FALSE}, config_file : ConfigFiles,
     trajectory_file : TrajectoryFileOpts, patch_path : {None}, task : {S_empty}]

Init ==
    /\ mode \in {"run", "interactive"}
    /\ opts \in (IF mode = "run" THEN RunOpts ELSE InteractiveOpts)
    /\ env \in Envs
    /\ fs = ConfigFileContent(opts.config_file)
    /\ pc = IF mode = "run" THEN "run_chdir" ELSE "int_load_config"
    /\ cwd = S_cwd
    /\ task = opts.task
    /\ working_dir = opts.working_dir
    /\ config = None
    /\ agent = "none"
    /\ trajectory_path = None
    /\ submitted = None
    /\ trajectories = <<>>
    /\ out = <<>>
    /\ calls = <<>>
    /\ ctorCalls = 0
    /\ nSetups = 0
    /\ nInputs = 0
    /\ lastInput = None
    /\ exit_status = None

\* The process ends with `status` after printing `msgs`.
Exit(msgs, status) ==
    /\ out' = out \o msgs
    /\ pc' = "done"
    /\ exit_status' = Some(status)

\* An exception no handler of cli.py catches leaves main(): click turns a
\* KeyboardInterrupt into "Aborted!", the interpreter prints a traceback for
\* anything else; the exit status is 1 either way.
UncaughtMessages(exc) ==
    IF exc = "KeyboardInterrupt" THEN <<Msg("plain", "Aborted!", "")>>
    ELSE <<Msg("plain", "Traceback", exc)>>

Uncaught(exc) == Exit(UncaughtMessages(exc), 1)

LoadConfigFailure_Swallowed(err) ==
    /\ out' = Append(out, Msg("red", "Error loading config", err))
    /\ pc' = IF mode = "run" THEN "run_create_agent" ELSE "int_create_agent"
    /\ UNCHANGED exit_status

\* run and interactive call load_config outside any try: what it raises is
\* uncaught.
LoadConfigFailure(err) == Uncaught(err)

-----------------------------------------------------------------------------
(* The `run` command.                                                      *)

\* run, "Change working directory if specified": the branch is taken when
\* working_dir is falsy; it reads os.getcwd() outside the try and calls
\* os.chdir inside it.
RunChdir ==
    /\ mode = "run" /\ pc = "run_chdir"
    /\ UNCHANGED <<mode, fs, trajectories, opts, env, task, config, agent, trajectory_path, submitted,
                   ctorCalls, nSetups, nInputs, lastInput>>
    /\ IF ~Truthy(working_dir)
       THEN \E g \in Outcomes :
              IF g # Ok
              THEN /\ Uncaught(g)
                   /\ calls' = Append(calls, Call("getcwd", g))
                   /\ UNCHANGED <<cwd, working_dir>>
              ELSE \E c \in Outcomes :
                     /\ working_dir' = Some(cwd)
                     /\ calls' = calls \o <<Call("getcwd", Ok), Call("chdir", c)>>
                     /\ IF c = Ok
                        THEN /\ cwd' = Val(working_dir')
                             /\ out' = Append(out, Msg("blue",
                                    "Changed working directory to", "cwd"))
                             /\ pc' = "run_read_task"
                             /\ UNCHANGED exit_status
                        ELSE /\ UNCHANGED cwd
                             /\ IF IsException(c)
                                THEN Exit(<<Msg("red", "Error changing directory", c)>>, 1)
                                ELSE Uncaught(c)
       ELSE /\ pc' = "run_read_task"
            /\ UNCHANGED <<cwd, working_dir, out, calls, exit_status>>

\* run: a task argument naming an existing file is replaced by the file's text.
RunReadTask ==
    /\ mode = "run" /\ pc = "run_read_task"
    /\ UNCHANGED <<mode, fs, trajectories, opts, env, cwd, working_dir, config, agent, trajectory_path,
                   submitted, calls, ctorCalls, nSetups, nInputs, lastInput>>
    /\ \E f \in {"absent", "file", "unreadable"} :
          CASE f = "absent" ->
                 /\ pc' = "run_load_config"
                 /\ UNCHANGED <<task, out, exit_status>>
            [] f = "file" ->
                 /\ task' = S_filetext
                 /\ pc' = "run_load_config"
                 /\ UNCHANGED <<out, exit_status>>
            [] f = "unreadable" ->
                 /\ Uncaught("Exception")
                 /\ UNCHANGED task

\* run: config = load_config(provider, model, api_key, config_file, max_steps)
RunLoadConfig ==
    /\ mode = "run" /\ pc = "run_load_config"
    /\ UNCHANGED <<mode, fs, trajectories, opts, env, cwd, task, working_dir, agent, trajectory_path,
                   submitted, ctorCalls, nSetups, nInputs, lastInput>>
    /\ LET r == load_config(opts.provider, opts.model, opts.api_key, opts.config_file,
                            opts.max_steps, env)
       IN IF r.ok
          THEN /\ config' = Some(r.config)
               /\ calls' = Append(calls, Call("load_config", Ok))
               /\ pc' = "run_create_agent"
               /\ UNCHANGED <<out, exit_status>>
          ELSE /\ calls' = Append(calls, Call("load_config", r.error))
               /\ LoadConfigFailure(r.error)
               /\ UNCHANGED config

CreateAgentFailure_Continues(exc) ==
    /\ out' = out \o <<Msg("red", "Error creating agent", exc),
                       Msg("plain", "Traceback", exc)>>
    /\ pc' = IF mode = "run" THEN "run_setup" ELSE "int_task_prompt"
    /\ UNCHANGED exit_status

\* create_agent's except clause: the diagnostic, then sys.exit(1).
CreateAgentFailure(exc) ==
    Exit(<<Msg("red", "Error creating agent", exc), Msg("plain", "Traceback", exc)>>, 1)

\* create_agent(config): TraeAgent(config) returns the agent, or raises.
CreateAgent(next) ==
    /\ ctorCalls' = ctorCalls + 1
    /\ \E o \in Outcomes :
         /\ calls' = Append(calls, Call("TraeAgent", o))
         /\ IF o = Ok
            THEN /\ agent' = "constructed"
                 /\ pc' = next
                 /\ UNCHANGED <<out, exit_status>>
            ELSE /\ UNCHANGED agent
                 /\ IF IsException(o) THEN CreateAgentFailure(o) ELSE Uncaught(o)

RunCreateAgent ==
    /\ mode = "run" /\ pc = "run_create_agent"
    /\ UNCHANGED <<mode, fs, trajectories, opts, env, cwd, task, working_dir, config, trajectory_path,
                   submitted, nSetups, nInputs, lastInput>>
    /\ CreateAgent("run_setup")

\* run, "Set up trajectory recording", then the CLIConsole with the task details.
RunSetupTrajectory ==
    /\ mode = "run" /\ pc = "run_setup"
    /\ UNCHANGED <<mode, fs, trajectories, opts, env, cwd, task, working_dir, config, agent, submitted,
                   ctorCalls, nInputs, lastInput>>
    /\ nSetups' = nSetups + 1
    /\ \E o \in Outcomes :
         /\ calls' = Append(calls, Call("setup_trajectory_recording", o))
         /\ IF o = Ok
            THEN /\ trajectory_path' =
                       Some(SetupTrajectoryRecording(
                           IF TruthyStr(opts.trajectory_file) THEN opts.trajectory_file
                           ELSE None, nSetups'))
                 /\ out' = Append(out, Msg("panel", "Task Details",
                                           PathText(trajectory_path')))
                 /\ pc' = "run_new_task"
                 /\ UNCHANGED exit_status
            ELSE /\ UNCHANGED trajectory_path
                 /\ Uncaught(o)

\* run's task_args
RunTaskArgs ==
    [project_path |-> working_dir, issue |-> task,
     must_patch |-> IF opts.must_patch THEN "true" ELSE "false",
     patch_path |-> opts.patch_path]

RunFailureStatus_Zero(exc) == 0

\* The exit status of run's two except clauses.
RunFailureStatus(exc) == 1

RunFailureMessages_NoPath(exc) ==
    IF exc = "KeyboardInterrupt"
    THEN <<Msg("yellow", "Task execution interrupted by user", "")>>
    ELSE <<Msg("red", "Unexpected error", exc), Msg("plain", "Traceback", exc)>>

\* What run's except clauses print: KeyboardInterrupt first, then Exception.
RunFailureMessages(exc) ==
    IF exc = "KeyboardInterrupt"
    THEN <<Msg("yellow", "Task execution interrupted by user", "")>>
         \o (IF TruthyStr(trajectory_path)
             THEN <<Msg("blue", "Partial trajectory saved to", PathText(trajectory_path))>>
             ELSE <<>>)
    ELSE <<Msg("red", "Unexpected error", exc), Msg("plain", "Traceback", exc)>>
         \o (IF TruthyStr(trajectory_path)
             THEN <<Msg("blue", "Trajectory saved to", PathText(trajectory_path))>>
             ELSE <<>>)

RunFailure(exc) == Exit(RunFailureMessages(exc), RunFailureStatus(exc))

\* run: agent.new_task(task, task_args) inside the try
RunNewTask ==
    /\ mode = "run" /\ pc = "run_new_task"
    /\ UNCHANGED <<mode, fs, opts, env, cwd, task, working_dir, config, agent,
                   trajectory_path, ctorCalls, nSetups, nInputs, lastInput>>
    /\ \E o \in Outcomes :
         /\ calls' = Append(calls, Call("new_task", o))
         /\ IF o = Ok
            THEN /\ submitted' = Some([task |-> task, args |-> RunTaskArgs])
                 /\ trajectories' = Append(trajectories, PathText(trajectory_path))
                 /\ pc' = "run_execute"
                 /\ UNCHANGED <<out, exit_status>>
            ELSE /\ UNCHANGED <<submitted, trajectories>>
                 /\ RunFailure(o)

\* run: asyncio.run(agent.execute_task()) inside the try, then the success
\* report; the command returns and the process ends with status 0.
RunExecuteTask ==
    /\ mode = "run" /\ pc = "run_execute"
    /\ UNCHANGED <<mode, fs, trajectories, opts, env, cwd, task, working_dir, config, agent,
                   trajectory_path, submitted, ctorCalls, nSetups, nInputs, lastInput>>
    /\ \E o \in Outcomes :
         /\ calls' = Append(calls, Call("execute_task", o))
         /\ IF o = Ok
            THEN Exit(<<Msg("green", "Trajectory saved to", PathText(trajectory_path))>>, 0)
            ELSE RunFailure(o)

-----------------------------------------------------------------------------
(* The `interactive` command.                                              *)

\* interactive: config = load_config(...), then the welcome panel
IntLoadConfig ==
    /\ mode = "interactive" /\ pc = "int_load_config"
    /\ UNCHANGED <<mode, fs, trajectories, opts, env, cwd, task, working_dir, agent, trajectory_path,
                   submitted, ctorCalls, nSetups, nInputs, lastInput>>
    /\ LET r == load_config(opts.provider, opts.model, opts.api_key, opts.config_file,
                            opts.max_steps, env)
       IN IF r.ok
          THEN /\ config' = Some(r.config)
               /\ calls' = Append(calls, Call("load_config", Ok))
               /\ out' = Append(out, Msg("panel", "Interactive Mode", opts.config_file))
               /\ pc' = "int_create_agent"
               /\ UNCHANGED exit_status
          ELSE /\ calls' = Append(calls, Call("load_config", r.error))
               /\ LoadConfigFailure(r.error)
               /\ UNCHANGED config

IntCreateAgent ==
    /\ mode = "interactive" /\ pc = "int_create_agent"
    /\ UNCHANGED <<mode, fs, trajectories, opts, env, cwd, task, working_dir, config, trajectory_path,
                   submitted, nSetups, nInputs, lastInput>>
    /\ CreateAgent("int_task_prompt")

IsExitCommand_CaseSensitive(t) == t \in {S_exit, S_quit}

\* task.lower() in ["exit", "quit"]
IsExitCommand(t) == Lower(t) \in {S_exit, S_quit}

\* task.lower() == "help"
IsHelpCommand(t) == Lower(t) = S_help

IsStatusCommand_Never(t) == FALSE

\* task.lower() == "status"
IsStatusCommand(t) == Lower(t) = S_status

\* task.lower() == "clear"
IsClearCommand(t) == Lower(t) = S_clear

IntHandler_InterruptBreaks(prefix, exc) ==
    CASE exc \in {"KeyboardInterrupt", "EOFError"} ->
           /\ out' = prefix \o <<Msg("green", "Goodbye!", "")>>
           /\ pc' = "done"
           /\ exit_status' = Some(0)
      [] exc = "Exception" ->
           /\ out' = prefix \o <<Msg("red", "Error", exc)>>
           /\ pc' = "int_task_prompt"
           /\ UNCHANGED exit_status

IntHandler_EofContinues(prefix, exc) ==
    CASE exc = "KeyboardInterrupt" ->
           /\ out' = prefix \o <<Msg("yellow", "Use 'exit' or 'quit' to end the session", "")>>
           /\ pc' = "int_task_prompt"
           /\ UNCHANGED exit_status
      [] exc \in {"EOFError", "Exception"} ->
           /\ out' = prefix \o <<Msg("red", "Error", exc)>>
           /\ pc' = "int_task_prompt"
           /\ UNCHANGED exit_status

\* The except clauses of the session loop, in their order: KeyboardInterrupt
\* warns and loops, EOFError says goodbye and breaks, Exception reports and
\* loops.  After the break the command returns: exit status 0.
IntHandler(prefix, exc) ==
    CASE exc = "KeyboardInterrupt" ->
           /\ out' = prefix \o <<Msg("yellow", "Use 'exit' or 'quit' to end the session", "")>>
           /\ pc' = "int_task_prompt"
           /\ UNCHANGED exit_status
      [] exc = "EOFError" ->
           /\ out' = prefix \o <<Msg("green", "Goodbye!", "")>>
           /\ pc' = "done"
           /\ exit_status' = Some(0)
      [] exc = "Exception" ->
           /\ out' = prefix \o <<Msg("red", "Error", exc)>>
           /\ pc' = "int_task_prompt"
           /\ UNCHANGED exit_status

\* The exception an input() call raises for an input event that is no line.
InputRaises(ev) == ev.kind

\* Top of the loop: the task prompt, input(), then the exit/quit and help
\* commands.
IntReadTask ==
    /\ mode = "interactive" /\ pc = "int_task_prompt"
    /\ UNCHANGED <<mode, fs, trajectories, opts, env, cwd, working_dir, config, agent, trajectory_path,
                   submitted, ctorCalls, nSetups>>
    /\ nInputs' = nInputs + 1
    /\ calls' = <<>>
    /\ \E ev \in InputEvents(nInputs) :
         /\ lastInput' = Some(ev)
         /\ LET prompt == <<Msg("bold blue", "Task:", "")>> IN
            IF ev.kind # "line"
            THEN /\ IntHandler(prompt, InputRaises(ev))
                 /\ UNCHANGED task
            ELSE /\ task' = ev.text
                 /\ CASE IsExitCommand(task') ->
                           /\ out' = prompt \o <<Msg("green", "Goodbye!", "")>>
                           /\ pc' = "done"
                           /\ exit_status' = Some(0)
                      [] ~IsExitCommand(task') /\ IsHelpCommand(task') ->
                           /\ out' = prompt \o <<Msg("panel", "Help", "")>>
                           /\ pc' = "int_task_prompt"
                           /\ UNCHANGED exit_status
                      [] OTHER ->
                           /\ out' = prompt
                           /\ pc' = "int_wd_prompt"
                           /\ UNCHANGED exit_status

NextAfterWorkingDir_SetupOnce == IF nSetups > 0 THEN "int_new_task" ELSE "int_setup"

\* A line that is neither status nor clear goes on to the trajectory setup of
\* its task.
NextAfterWorkingDir == "int_setup"

\* The working-directory prompt, input(), then the status and clear commands.
IntReadWorkingDir ==
    /\ mode = "interactive" /\ pc = "int_wd_prompt"
    /\ UNCHANGED <<mode, fs, trajectories, opts, env, cwd, task, config, agent, trajectory_path,
                   submitted, calls, ctorCalls, nSetups>>
    /\ nInputs' = nInputs + 1
    /\ \E ev \in InputEvents(nInputs) :
         /\ lastInput' = Some(ev)
         /\ LET prompt == Append(out, Msg("bold blue", "Working Directory:", "")) IN
            IF ev.kind # "line"
            THEN /\ IntHandler(prompt, InputRaises(ev))
                 /\ UNCHANGED working_dir
            ELSE /\ working_dir' = Some(ev.text)
                 /\ UNCHANGED exit_status
                 /\ CASE IsStatusCommand(task) ->
                           /\ out' = Append(prompt, Msg("panel", "Agent Status", ""))
                           /\ pc' = "int_task_prompt"
                      [] ~IsStatusCommand(task) /\ IsClearCommand(task) ->
                           /\ out' = Append(prompt, Msg("clear", "", ""))
                           /\ pc' = "int_task_prompt"
                      [] OTHER ->
                           /\ out' = prompt
                           /\ pc' = NextAfterWorkingDir

\* "Set up trajectory recording for this task"
IntSetupTrajectory ==
    /\ mode = "interactive" /\ pc = "int_setup"
    /\ UNCHANGED <<mode, fs, trajectories, opts, env, cwd, task, working_dir, config, agent, submitted,
                   ctorCalls, nInputs, lastInput>>
    /\ nSetups' = nSetups + 1
    /\ \E o \in Outcomes :
         /\ calls' = Append(calls, Call("setup_trajectory_recording", o))
         /\ IF o = Ok
            THEN /\ trajectory_path' =
                       Some(SetupTrajectoryRecording(opts.trajectory_file, nSetups'))
                 /\ out' = Append(out, Msg("blue", "Trajectory will be saved to",
                                           PathText(trajectory_path')))
                 /\ pc' = "int_new_task"
                 /\ UNCHANGED exit_status
            ELSE /\ UNCHANGED trajectory_path
                 /\ IntHandler(out, o)

IntTaskArgs_MustPatch ==
    [project_path |-> working_dir, issue |-> task, must_patch |-> "true"]

\* interactive's task_args
IntTaskArgs == [project_path |-> working_dir, issue |-> task, must_patch |-> "false"]

\* "Execute the task": agent.new_task(task, task_args)
IntNewTask ==
    /\ mode = "interactive" /\ pc = "int_new_task"
    /\ UNCHANGED <<mode, fs, opts, env, cwd, task, working_dir, config, agent,
                   trajectory_path, ctorCalls, nSetups, nInputs, lastInput>>
    /\ \E o \in Outcomes :
         /\ calls' = Append(calls, Call("new_task", o))
         /\ LET printed == Append(out, Msg("blue", "Executing task", "task")) IN
            IF o = Ok
            THEN /\ submitted' = Some([task |-> task, args |-> IntTaskArgs])
                 /\ trajectories' = Append(trajectories, PathText(trajectory_path))
                 /\ out' = printed
                 /\ pc' = "int_execute"
                 /\ UNCHANGED exit_status
            ELSE /\ UNCHANGED <<submitted, trajectories>>
                 /\ IntHandler(printed, o)

\* asyncio.run(agent.execute_task()), then the success report and the next
\* round of the loop.
IntExecuteTask ==
    /\ mode = "interactive" /\ pc = "int_execute"
    /\ UNCHANGED <<mode, fs, trajectories, opts, env, cwd, task, working_dir, config, agent,
                   trajectory_path, submitted, ctorCalls, nSetups, nInputs, lastInput>>
    /\ \E o \in Outcomes :
         /\ calls' = Append(calls, Call("execute_task", o))
         /\ IF o = Ok
            THEN /\ out' = Append(out, Msg("green", "Trajectory saved to",
                                           PathText(trajectory_path)))
                 /\ pc' = "int_task_prompt"
                 /\ UNCHANGED exit_status
            ELSE IntHandler(out, o)

-----------------------------------------------------------------------------

Next ==
    \/ RunChdir
    \/ RunReadTask
    \/ RunLoadConfig
    \/ RunCreateAgent
    \/ RunSetupTrajectory
    \/ RunNewTask
    \/ RunExecuteTask
    \/ IntLoadConfig
    \/ IntCreateAgent
    \/ IntReadTask
    \/ IntReadWorkingDir
    \/ IntSetupTrajectory
    \/ IntNewTask
    \/ IntExecuteTask

Spec == Init /\ [][Next]_vars

-----------------------------------------------------------------------------
(* The session states of the interactive dispatcher, read off pc.          *)

InSession ==
    /\ mode = "interactive"
    /\ pc \in {"int_task_prompt", "int_wd_prompt", "int_setup", "int_new_task",
               "int_execute"}

AwaitingInput == mode = "interactive" /\ pc = "int_task_prompt"
Terminated == mode = "interactive" /\ pc = "done" /\ agent = "constructed"

\* The collaborator calls recorded in `calls` under the name fn.
CallsOf(fn) == {i \in 1..Len(calls) : calls[i].fn = fn}
Called(fn, res) == \E i \in 1..Len(calls) : calls[i] = Call(fn, res)

\* The console shows a message of this style and text.
Printed(style, text) ==
    \E i \in 1..Len(out) : out[i][1] = style /\ out[i][2] = text
PrintedWith(style, text, arg) ==
    \E i \in 1..Len(out) : out[i] = Msg(style, text, arg)

\* The words of the dispatcher's commands as the user may type them.
ExitWords == {S_exit, S_EXIT, S_quit, S_Quit}
ControlWords == {S_help, S_status, S_Status, S_clear}
TaskLines == Lines \ (ExitWords \cup ControlWords \cup {S_empty})

-----------------------------------------------------------------------------
(* C1 *)

\* C1: in an interactive session no outcome of a submitted task ends the
\* session: a step out of trajectory setup, submission or execution goes on
\* with the task or back to the task prompt, and the session terminates only
\* in the step that reads exit/quit at the task prompt or meets end of input
\* at a prompt.
C1_OnlyExitOrEndOfInputTerminates ==
    [][(InSession /\ (pc \in {"int_setup", "int_new_task", "int_execute"}
                        => task \in TaskLines)) =>
         /\ (pc \in {"int_setup", "int_new_task", "int_execute"} => pc' # "done")
         /\ (pc = "int_execute" => pc' \in {"int_execute", "int_task_prompt"})
         /\ (pc' = "done" =>
               \/ /\ pc = "int_task_prompt"
                  /\ \/ lastInput' = Some(EofEvent)
                     \/ \E l \in ExitWords : lastInput' = Some(LineEvent(l))
               \/ /\ pc = "int_wd_prompt"
                  /\ lastInput' = Some(EofEvent))]_vars

-----------------------------------------------------------------------------
(* C2 *)

\* The task was driven to completion without error.
RunCompleted == Called("execute_task", Ok)

\* C2: a single-shot run that has ended has exit status 0 exactly when
\* execute_task returned, and exit status 1 in every other case.
C2_RunExitStatus ==
    (mode = "run" /\ pc = "done") =>
        /\ exit_status \in {Some(0), Some(1)}
        /\ (exit_status = Some(0)) <=> RunCompleted
        /\ (exit_status = Some(1)) <=>
              \/ Called("load_config", "ConfigError") \/ Called("load_config", "KeyError")
              \/ \E e \in Raised :
                    \/ Called("getcwd", e) \/ Called("chdir", e) \/ Called("TraeAgent", e)
                    \/ Called("setup_trajectory_recording", e)
                    \/ Called("new_task", e) \/ Called("execute_task", e)
              \/ Printed("plain", "Traceback")

\* A run interrupted by the user while the task was being driven.
C2_Witness ==
    /\ mode = "run" /\ pc = "done"
    /\ Called("execute_task", "KeyboardInterrupt")
    /\ exit_status = Some(1)

-----------------------------------------------------------------------------
(* C3 *)

\* The exception that ended the try block of run, if one did.
RunRaised(e) == Called("new_task", e) \/ Called("execute_task", e)

\* C3: when a single-shot run ends by a user interruption raised in the try
\* block, the console shows the trajectory path of the task as partial and
\* the exit status is 1; when it ends by any other exception raised there,
\* the console shows the error, the traceback and the trajectory path, and
\* the exit status is 1; the success report of line 207 is printed in
\* neither case.
C3_RunFailureReports ==
    (mode = "run" /\ pc = "done") =>
        /\ RunRaised("KeyboardInterrupt") =>
              /\ Printed("yellow", "Task execution interrupted by user")
              /\ ~IsNone(trajectory_path)
              /\ PrintedWith("blue", "Partial trajectory saved to", Val(trajectory_path))
              /\ exit_status = Some(1)
              /\ ~Printed("green", "Trajectory saved to")
        /\ \A e \in {"Exception", "EOFError"} : RunRaised(e) =>
              /\ PrintedWith("red", "Unexpected error", e)
              /\ PrintedWith("plain", "Traceback", e)
              /\ ~IsNone(trajectory_path)
              /\ PrintedWith("blue", "Trajectory saved to", Val(trajectory_path))
              /\ exit_status = Some(1)
              /\ ~Printed("green", "Trajectory saved to")

\* A run whose execute_task failed, with the path reported by the handler.
C3_Witness ==
    /\ mode = "run" /\ pc = "done"
    /\ Called("execute_task", "Exception")
    /\ PrintedWith("blue", "Trajectory saved to", "traj.json")

-----------------------------------------------------------------------------
(* C4 *)

\* C4: the step that reads exit or quit, in any letter case, at the task
\* prompt ends the session at once with status 0: it prints no
\* working-directory prompt, reads no second line, and sets up no trajectory
\* and submits no task.
C4_ExitTerminatesImmediately ==
    [][(AwaitingInput /\ \E l \in ExitWords : lastInput' = Some(LineEvent(l))) =>
         /\ pc' = "done"
         /\ exit_status' = Some(0)
         /\ nInputs' = nInputs + 1
         /\ ~\E i \in 1..Len(out') : out'[i][2] = "Working Directory:"
         /\ calls' = <<>>
         /\ nSetups' = nSetups
         /\ submitted' = submitted]_vars

\* The session ended by the line EXIT.
C4_Witness ==
    /\ Terminated
    /\ lastInput = Some(LineEvent(S_EXIT))
    /\ task = S_EXIT
    /\ exit_status = Some(0)

-----------------------------------------------------------------------------
(* C5 *)

\* C5: while the line being handled is help, status or clear, no trajectory
\* has been set up, no task submitted and no task driven for it, and the
\* dispatcher is at none of the steps that do so.
C5_ControlWordsBuildNoTask ==
    (mode = "interactive" /\ agent = "constructed" /\ nInputs > 0
        /\ task \in ControlWords) =>
        /\ pc \notin {"int_setup", "int_new_task", "int_execute"}
        /\ calls = <<>>

\* A status line has been handled: its panel is on the console.
C5_Witness ==
    /\ AwaitingInput
    /\ task = S_status
    /\ Printed("panel", "Agent Status")

-----------------------------------------------------------------------------
(* C6 *)

\* C6: a non-empty task line that is no command is followed next by the
\* working-directory prompt, with no setup or submission in between; once the
\* working-directory line is read the next step is the trajectory setup of
\* the task; the Task Request submitted after it has the entered line as its
\* project path, "false" as must-patch and no patch path; and a submission
\* that returned is followed by the execution of the task.
C6_TaskLineThenWorkingDir ==
    [][mode = "interactive" =>
         /\ (pc = "int_task_prompt" /\ \E l \in TaskLines : lastInput' = Some(LineEvent(l)))
               => (pc' = "int_wd_prompt" /\ calls' = <<>> /\ nSetups' = nSetups
                   /\ submitted' = submitted)
         /\ (pc = "int_wd_prompt" /\ task \in TaskLines
                /\ Val(lastInput').kind = "line")
               => (pc' = "int_setup" /\ working_dir' = Some(Val(lastInput').text)
                   /\ calls' = <<>> /\ submitted' = submitted)
         /\ (pc = "int_setup" /\ task \in TaskLines /\ pc' # "int_setup")
               => (pc' = "int_new_task"
                   <=> calls' = <<Call("setup_trajectory_recording", Ok)>>)
         /\ (pc = "int_new_task" /\ task \in TaskLines /\ pc' # "int_new_task")
               => /\ pc' = "int_execute" <=> calls'[Len(calls')] = Call("new_task", Ok)
                  /\ pc' = "int_execute" =>
                        /\ submitted' =
                             Some([task |-> task,
                                   args |-> [project_path |-> Some(Val(lastInput).text),
                                             issue |-> task,
                                             must_patch |-> "false"]])
                        /\ "patch_path" \notin DOMAIN Val(submitted').args]_vars

\* The task line fix with working directory /p is being driven.
C6_Witness ==
    /\ mode = "interactive" /\ pc = "int_execute"
    /\ task = S_fix
    /\ lastInput = Some(LineEvent(S_proj))
    /\ Val(submitted).args.project_path = Some(S_proj)

-----------------------------------------------------------------------------
(* C7 *)

\* C7: the step that reads status or clear at the task prompt displays the
\* snapshot, or clears the display, and leaves the dispatcher at the task
\* prompt, so that the next line read is a task line.
C7_StatusAndClearReadNoSecondLine ==
    [][(AwaitingInput /\ lastInput' \in {Some(LineEvent(S_status)), Some(LineEvent(S_clear))}) =>
         /\ pc' = "int_task_prompt"
         /\ \E i \in 1..Len(out') :
               \/ out'[i][2] = "Agent Status" /\ lastInput' = Some(LineEvent(S_status))
               \/ out'[i][1] = "clear" /\ lastInput' = Some(LineEvent(S_clear))]_vars

-----------------------------------------------------------------------------
(* C8 *)

LoadConfigFailed ==
    Called("load_config", "ConfigError") \/ Called("load_config", "KeyError")

\* C8: after load_config has failed, in run or interactive, the process has
\* ended without a configuration: the agent constructor was never invoked,
\* no trajectory was set up, no task was submitted and no input was read.
C8_ConfigErrorAbortsBeforeAgent ==
    LoadConfigFailed =>
        /\ pc = "done"
        /\ exit_status = Some(1)
        /\ IsNone(config)
        /\ ctorCalls = 0 /\ agent = "none"
        /\ nSetups = 0
        /\ IsNone(submitted)
        /\ nInputs = 0
        /\ CallsOf("TraeAgent") = {} /\ CallsOf("setup_trajectory_recording") = {}
        /\ CallsOf("new_task") = {} /\ CallsOf("execute_task") = {}

\* An interactive start whose resolved provider has no settings entry.
C8_Witness ==
    /\ mode = "interactive" /\ pc = "done"
    /\ Called("load_config", "KeyError")

-----------------------------------------------------------------------------
(* C9 *)

\* C9: the agent constructor is invoked at most once per process; once it
\* has raised, the process has ended with exit status 1, with the diagnostic
\* and the traceback on the console when what it raised is an Exception, and
\* no trajectory was set up, no task submitted and no prompt reached.
C9_AgentConstructionFailureIsFatal ==
    /\ ctorCalls <= 1
    /\ Cardinality(CallsOf("TraeAgent")) <= 1
    /\ \A e \in Raised : Called("TraeAgent", e) =>
          /\ pc = "done"
          /\ exit_status = Some(1)
          /\ agent = "none"
          /\ ctorCalls = 1
          /\ IsException(e) =>
                /\ PrintedWith("red", "Error creating agent", e)
                /\ PrintedWith("plain", "Traceback", e)
          /\ nSetups = 0
          /\ IsNone(submitted)
          /\ nInputs = 0 /\ IsNone(lastInput)
          /\ ~Printed("bold blue", "Task:")
          /\ CallsOf("setup_trajectory_recording") = {} /\ CallsOf("new_task") = {}

\* An interactive start whose agent constructor raised.
C9_Witness ==
    /\ mode = "interactive" /\ pc = "done"
    /\ Called("TraeAgent", "Exception")
    /\ exit_status = Some(1)

-----------------------------------------------------------------------------
(* C10 *)

\* C10: in both modes, whenever a task is about to be driven or has been
\* driven, exactly one trajectory setup was called since process start (or
\* since the last task prompt), it returned, and it directly precedes the
\* submission of the task; and every trajectory setup that returned is
\* followed directly by a submission attempt.
C10_OneSetupBeforeEachTask ==
    /\ (pc \in {"run_execute", "int_execute"} \/ CallsOf("execute_task") # {}) =>
          /\ Cardinality(CallsOf("setup_trajectory_recording")) = 1
          /\ Cardinality(CallsOf("new_task")) = 1
          /\ Cardinality(CallsOf("execute_task")) <= 1
          /\ \A i \in CallsOf("new_task") :
                i > 1 /\ calls[i - 1] = Call("setup_trajectory_recording", Ok)
          /\ \A i \in CallsOf("execute_task") : i > 1 /\ calls[i - 1] = Call("new_task", Ok)
    /\ \A i \in CallsOf("new_task") :
          i > 1 /\ calls[i - 1] = Call("setup_trajectory_recording", Ok)
    /\ \A i \in CallsOf("setup_trajectory_recording") : calls[i].res = Ok =>
          IF i = Len(calls) THEN pc \in {"run_new_task", "int_new_task"}
          ELSE calls[i + 1].fn = "new_task"

\* The second task of a session is being driven, after its own setup.
C10_Witness ==
    /\ mode = "interactive" /\ pc = "int_execute"
    /\ nSetups = 2
    /\ calls = <<Call("setup_trajectory_recording", Ok), Call("new_task", Ok)>>

-----------------------------------------------------------------------------
(* C11 *)

\* C11: over an interactive session no two submitted tasks are bound to the
\* same trajectory path, whatever --trajectory-file is.
C11_FreshTrajectoryPerTask ==
    mode = "interactive" =>
        \A i, j \in 1..Len(trajectories) : i # j => trajectories[i] # trajectories[j]

-----------------------------------------------------------------------------
(* C15 *)

\* The step is an input() call at one of the two prompts.
ReadsInput == InSession /\ pc \in {"int_task_prompt", "int_wd_prompt"}
                 /\ nInputs' = nInputs + 1

\* C15: an input() call that is interrupted, at the task prompt or at the
\* working-directory prompt, prints the warning and leaves the session at
\* the task prompt: the process does not end, and no trajectory is set up and
\* no task submitted in that round of the loop.
C15_InterruptedInputKeepsSession ==
    [][(ReadsInput /\ lastInput' = Some(IntEvent)) =>
         /\ pc' = "int_task_prompt"
         /\ IsNone(exit_status')
         /\ out'[Len(out')] = Msg("yellow", "Use 'exit' or 'quit' to end the session", "")
         /\ nSetups' = nSetups
         /\ submitted' = submitted /\ trajectories' = trajectories
         /\ CallsOf("setup_trajectory_recording")' = {} /\ CallsOf("new_task")' = {}
         /\ CallsOf("execute_task")' = {}]_vars

\* The working-directory prompt of the task line fix was interrupted.
C15_Witness ==
    /\ AwaitingInput
    /\ task = S_fix
    /\ lastInput = Some(IntEvent)
    /\ \E i \in 1..Len(out) : out[i][2] = "Working Directory:"
    /\ calls = <<>>

-----------------------------------------------------------------------------
(* C16 *)

\* C16: an input() call that meets end of input, at the task prompt or at
\* the working-directory prompt, ends the session as exit/quit does (Goodbye,
\* exit status 0), and sets up no trajectory and submits no task.
C16_EndOfInputTerminates ==
    [][(ReadsInput /\ lastInput' = Some(EofEvent)) =>
         /\ pc' = "done"
         /\ exit_status' = Some(0)
         /\ out'[Len(out')] = Msg("green", "Goodbye!", "")
         /\ nSetups' = nSetups
         /\ submitted' = submitted /\ trajectories' = trajectories
         /\ CallsOf("setup_trajectory_recording")' = {} /\ CallsOf("new_task")' = {}
         /\ CallsOf("execute_task")' = {}]_vars

\* End of input met at the working-directory prompt of the task line fix.
C16_Witness ==
    /\ Terminated
    /\ task = S_fix
    /\ lastInput = Some(EofEvent)
    /\ \E i \in 1..Len(out) : out[i][2] = "Working Directory:"
    /\ calls = <<>>

-----------------------------------------------------------------------------
(* C18 *)

\* C18: when run is given a working directory, the process-wide current
\* directory is that directory from the first step on, by one chdir made
\* before configuration loading and agent construction.
C18_RunChangesToGivenWorkingDir ==
    (mode = "run" /\ Truthy(opts.working_dir) /\ pc # "run_chdir") =>
        /\ cwd = Val(opts.working_dir)
        /\ Cardinality(CallsOf("chdir")) = 1

-----------------------------------------------------------------------------
(* C19 *)

\* C19: an empty task line leads to no working-directory prompt, no
\* trajectory setup and no Task Request.
C19_EmptyLineIsNoTask ==
    (mode = "interactive" /\ nInputs > 0 /\ task = S_empty) =>
        /\ pc \notin {"int_wd_prompt", "int_setup", "int_new_task", "int_execute"}
        /\ calls = <<>>
        /\ (~IsNone(submitted) => Val(submitted).task # S_empty)

-----------------------------------------------------------------------------
(* load_config on its own: one call, over every combination of defined,    *)
(* empty and missing CLI values, config files and environments.            *)

EnvAnthropic == [v \in {"ANTHROPIC_API_KEY"} |-> "sk-env"]
EnvEmptyKeys == [v \in {"OPENAI_API_KEY", "ANTHROPIC_API_KEY"} |-> ""]
EnvBoth == [v \in {"OPENAI_API_KEY", "ANTHROPIC_API_KEY"} |->
               IF v = "OPENAI_API_KEY" THEN "sk-test" ELSE "sk-env"]
ConfigEnvs == {EnvNone, EnvOpenai, EnvAnthropic, EnvEmptyKeys, EnvBoth}

\* The arguments of the call; --max-steps is any integer (click type=int).
ConfigCallOpts ==
    [provider : {None, Some(""), Some("anthropic"), Some("openai"), Some("azure")},
     model : {None, Some(""), Some("m-cli")},
     api_key : {None, Some(""), Some("sk-cli")},
     max_steps : {None, Some(5), Some(0), Some(-3)},
     working_dir : {None}, must_patch : {FALSE}, config_file : ConfigFiles,
     trajectory_file : {None}, patch_path : {None}, task : {S_empty}]

InitConfig ==
    /\ mode = "load_config"
    /\ opts \in ConfigCallOpts
    /\ env \in ConfigEnvs
    /\ fs = ConfigFileContent(opts.config_file)
    /\ pc = "config_call"
    /\ cwd = S_cwd
    /\ task = opts.task
    /\ working_dir = opts.working_dir
    /\ config = None
    /\ agent = "none"
    /\ trajectory_path = None
    /\ submitted = None
    /\ trajectories = <<>>
    /\ out = <<>>
    /\ calls = <<>>
    /\ ctorCalls = 0
    /\ nSetups = 0
    /\ nInputs = 0
    /\ lastInput = None
    /\ exit_status = None

\* config = load_config(provider, model, api_key, config_file, max_steps)
LoadConfigCall ==
    /\ mode = "load_config" /\ pc = "config_call"
    /\ UNCHANGED <<mode, fs, opts, env, cwd, task, working_dir, agent, trajectory_path,
                   submitted, trajectories, out, ctorCalls, nSetups, nInputs, lastInput,
                   exit_status>>
    /\ LET r == load_config(opts.provider, opts.model, opts.api_key, opts.config_file,
                            opts.max_steps, env)
       IN IF r.ok
          THEN /\ config' = Some(r.config)
               /\ calls' = Append(calls, Call("load_config", Ok))
               /\ pc' = "config_returned"
          ELSE /\ calls' = Append(calls, Call("load_config", r.error))
               /\ pc' = "config_raised"
               /\ UNCHANGED config

NextConfig == LoadConfigCall

SpecConfig == InitConfig /\ [][NextConfig]_vars

\* The Config the call started from, and the one it returned.
FileConfig == ReadConfig(opts.config_file).config
Returned == mode = "load_config" /\ pc = "config_returned"
Effective == Val(config)
EffectiveProvider == Val(Effective.default_provider)

\* The first defined value of a list of sources, None when none is defined.
FirstDefined(sources) ==
    LET I == {i \in 1..Len(sources) : Defined(sources[i])} IN
    IF I = {} THEN None ELSE sources[CHOOSE i \in I : \A j \in I : i <= j]

FirstDefinedInt(sources) ==
    LET I == {i \in 1..Len(sources) : DefinedInt(sources[i])} IN
    IF I = {} THEN None ELSE sources[CHOOSE i \in I : \A j \in I : i <= j]

\* The value a setting has when no source defines one: what the Config held.
OrElse(o, fallback) == IF IsNone(o) THEN fallback ELSE o

-----------------------------------------------------------------------------
(* C12 *)

\* C12: in the Config load_config returns, the provider is the first defined
\* of CLI value, config-file value, "openai"; the model the first defined of
\* CLI value, config-file value; the credential the first defined of CLI
\* value, config-file value, the provider's environment variable; max_steps
\* the first defined of CLI value, config-file value; a setting no source
\* defines keeps what the Config held.
C12_FirstDefinedSourceWins ==
    Returned =>
        LET p == EffectiveProvider
            f == FileConfig.model_providers[p]
            s == Effective.model_providers[p]
        IN
        /\ Some(p) = FirstDefined(<<opts.provider, FileConfig.default_provider,
                                    Some("openai")>>)
        /\ s.model = OrElse(FirstDefined(<<opts.model, f.model>>), f.model)
        /\ s.api_key = OrElse(FirstDefined(<<opts.api_key, f.api_key,
                                             GetEnv(env, EnvVarMap(p))>>), f.api_key)
        /\ Effective.max_steps =
              OrElse(FirstDefinedInt(<<opts.max_steps, FileConfig.max_steps>>),
                     FileConfig.max_steps)

\* Every source of the credential and of the provider is defined, and the
\* CLI values won.
C12_Witness ==
    /\ Returned
    /\ opts.provider = Some("openai") /\ opts.config_file = "trae_config.json"
    /\ opts.api_key = Some("sk-cli") /\ env = EnvBoth
    /\ EffectiveProvider = "openai"
    /\ Effective.model_providers["openai"].api_key = Some("sk-cli")

-----------------------------------------------------------------------------
(* C13 *)

\* C13: the default_provider of a returned Config is a key of its provider
\* mapping, and a call whose resolved provider has no settings entry in the
\* Config it started from does not return.
C13_DefaultProviderHasSettings ==
    /\ Returned => EffectiveProvider \in DOMAIN Effective.model_providers
    /\ (mode = "load_config" /\ pc # "config_call" /\ ReadConfig(opts.config_file).ok
          /\ Val(FirstDefined(<<opts.provider, FileConfig.default_provider,
                                Some("openai")>>)) \notin DOMAIN FileConfig.model_providers)
          => (pc = "config_raised" /\ Called("load_config", "KeyError") /\ IsNone(config))

\* A call for a provider the config file has no entry for.
C13_Witness ==
    /\ mode = "load_config" /\ pc = "config_raised"
    /\ opts.provider = Some("azure") /\ opts.config_file = "trae_config.json"
    /\ Called("load_config", "KeyError")

-----------------------------------------------------------------------------
(* C14 *)

\* C14: the max_steps of every Config load_config returns is greater than 0,
\* for every integer --max-steps and every config file.
C14_MaxStepsPositive ==
    (Returned /\ ~IsNone(Effective.max_steps)) => Val(Effective.max_steps) > 0

-----------------------------------------------------------------------------
(* C20 *)

\* C20: load_config leaves the provider mapping's keys and the settings
\* entry of every provider other than the resolved one as the Config held
\* them, and of the resolved provider's entry it changes nothing but model
\* and credential.
C20_OverridesTouchResolvedProviderOnly ==
    Returned =>
        LET p == EffectiveProvider IN
        /\ DOMAIN Effective.model_providers = DOMAIN FileConfig.model_providers
        /\ \A q \in DOMAIN FileConfig.model_providers : q # p =>
              Effective.model_providers[q] = FileConfig.model_providers[q]
        /\ LET f == FileConfig.model_providers[p]
               s == Effective.model_providers[p]
           IN /\ s.max_tokens = f.max_tokens /\ s.temperature = f.temperature
              /\ s.top_p = f.top_p /\ s.top_k = f.top_k

\* CLI model and credential overrides applied to anthropic, with an openai
\* entry beside it.
C20_Witness ==
    /\ Returned
    /\ opts.config_file = "trae_config.json" /\ EffectiveProvider = "anthropic"
    /\ opts.model = Some("m-cli") /\ opts.api_key = Some("sk-cli")
    /\ Effective.model_providers["anthropic"].model = Some("m-cli")
    /\ Effective.model_providers["anthropic"].api_key = Some("sk-cli")

-----------------------------------------------------------------------------
(* show_config: one call of the show-config command on a config file.      *)

\* str(n) of an integer setting.
Str(n) == ToString(n)

\* provider_name.title()
Title(p) ==
    CASE p = "openai" -> "Openai"
      [] p = "anthropic" -> "Anthropic"
      [] p = "azure" -> "Azure"

\* The order in which model_providers.items() yields the providers.
ProviderOrder == <<"openai", "anthropic", "azure">>
ItemsOf(mps) == SelectSeq(ProviderOrder, LAMBDA q : q \in DOMAIN mps)

\* The panel shown when the path does not exist.
MissingFilePanel(path) ==
    <<Msg("yellow", "No configuration file found at", path)>>

\* str(config.default_provider or "Not set"), str(config.max_steps or "Not set")
DefaultProviderCell(cfg) ==
    IF TruthyStr(cfg.default_provider) THEN Val(cfg.default_provider) ELSE "Not set"
MaxStepsCell(cfg) ==
    IF ~IsNone(cfg.max_steps) /\ Val(cfg.max_steps) # 0
    THEN Str(Val(cfg.max_steps)) ELSE "Not set"

GeneralTable(cfg) ==
    <<Msg("table", "General Settings", ""),
      Msg("row", "Default Provider", DefaultProviderCell(cfg)),
      Msg("row", "Max Steps", MaxStepsCell(cfg))>>

\* provider_config.model or "Not set"
ModelCell(s) == IF TruthyStr(s.model) THEN Val(s.model) ELSE "Not set"

ApiKeyCell_Value(s) == IF TruthyStr(s.api_key) THEN Val(s.api_key) ELSE "Not set"

\* "Set" if provider_config.api_key else "Not set"
ApiKeyCell(s) == IF TruthyStr(s.api_key) THEN "Set" ELSE "Not set"

ProviderTable(p, s) ==
    <<Msg("table", Title(p), "Configuration"),
      Msg("row", "Model", ModelCell(s)),
      Msg("row", "API Key", ApiKeyCell(s)),
      Msg("row", "Max Tokens", Str(s.max_tokens)),
      Msg("row", "Temperature", Str(s.temperature)),
      Msg("row", "Top P", Str(s.top_p))>>
    \o (IF p = "anthropic" THEN <<Msg("row", "Top K", Str(s.top_k))>> ELSE <<>>)

RECURSIVE ProviderTables(_, _)
ProviderTables(mps, names) ==
    IF names = <<>> THEN <<>>
    ELSE ProviderTable(Head(names), mps[Head(names)])
         \o ProviderTables(mps, Tail(names))

\* Everything show_config prints for a Config it could construct.
ConfigTables(cfg) ==
    GeneralTable(cfg) \o ProviderTables(cfg.model_providers, ItemsOf(cfg.model_providers))

\* Everything show_config prints before Config(config_file) is called.
ShowConfigPreamble(path, f) ==
    IF f.kind = "missing" THEN MissingFilePanel(path) ELSE <<>>

\* The whole output of show_config on a file Config can read.
ShowConfigOutput(path, f) ==
    ShowConfigPreamble(path, f) \o ConfigTables(ReadConfigFrom(f).config)

\* The credential values and settings entries the config files under test hold.
Credentials == {"sk-a", "sk-b"}
ShowSettings ==
    {Settings(m, k) : m \in {None, Some("m-1")},
                      k \in {None, Some("")} \cup {Some(c) : c \in Credentials}}
ShowProviderSets == {{"openai"}, {"anthropic"}, {"openai", "anthropic"}}
ShowConfigs ==
    UNION {[default_provider : {None, Some("anthropic")},
            model_providers : [D -> ShowSettings],
            max_steps : {None, Some(0), Some(10)}] : D \in ShowProviderSets}
ShowFileContents ==
    {[kind |-> "missing"], [kind |-> "malformed"]}
    \cup {[kind |-> "valid", cfg |-> c] : c \in ShowConfigs}

InitShow ==
    /\ mode = "show_config"
    /\ opts = [config_file |-> "trae_config.json"]
    /\ env = EnvNone
    /\ fs \in ShowFileContents
    /\ pc = "show_config"
    /\ cwd = S_cwd
    /\ task = None
    /\ working_dir = None
    /\ config = None
    /\ agent = "none"
    /\ trajectory_path = None
    /\ submitted = None
    /\ trajectories = <<>>
    /\ out = <<>>
    /\ calls = <<>>
    /\ ctorCalls = 0
    /\ nSetups = 0
    /\ nInputs = 0
    /\ lastInput = None
    /\ exit_status = None

\* show_config(config_file): the panel for a missing file, Config(config_file)
\* outside any try, then the general table and one table per provider.
ShowConfig ==
    /\ mode = "show_config" /\ pc = "show_config"
    /\ UNCHANGED <<mode, fs, opts, env, cwd, task, working_dir, agent, trajectory_path,
                   submitted, trajectories, ctorCalls, nSetups, nInputs, lastInput>>
    /\ LET r == ReadConfigFrom(fs)
       IN IF r.ok
          THEN /\ config' = Some(r.config)
               /\ calls' = Append(calls, Call("Config", Ok))
               /\ Exit(ShowConfigOutput(opts.config_file, fs), 0)
          ELSE /\ calls' = Append(calls, Call("Config", r.error))
               /\ UNCHANGED config
               /\ Exit(ShowConfigPreamble(opts.config_file, fs)
                       \o UncaughtMessages(r.error), 1)

NextShow == ShowConfig

SpecShow == InitShow /\ [][NextShow]_vars

-----------------------------------------------------------------------------
(* C17 *)

\* The file content with the credential of provider q replaced by k.
WithCredential(f, q, k) == [f EXCEPT !.cfg.model_providers[q].api_key = Some(k)]

\* The providers of a readable file whose credential is present.
WithPresentCredential(f) ==
    {q \in DOMAIN f.cfg.model_providers : TruthyStr(f.cfg.model_providers[q].api_key)}

ShownConfig == mode = "show_config" /\ pc = "done" /\ fs.kind = "valid"

\* C17: what show-config has printed for a config file is what it prints for
\* the same file with any present credential replaced by any other credential
\* value; no printed cell is a credential value of the file; and the tables
\* hold one "Set" per provider with a credential, one "Not set" per provider
\* without.
C17_ShowConfigHidesCredential ==
    ShownConfig =>
        LET mps == fs.cfg.model_providers
            KeyRows(v) == {i \in 1..Len(out) : out[i] = Msg("row", "API Key", v)}
        IN /\ \A q \in WithPresentCredential(fs) : \A k \in Credentials \cup {"sk-c"} :
                  out = ShowConfigOutput(opts.config_file, WithCredential(fs, q, k))
           /\ \A i \in 1..Len(out) : \A q \in WithPresentCredential(fs) :
                  out[i][3] # Val(mps[q].api_key)
           /\ Cardinality(KeyRows("Set")) = Cardinality(WithPresentCredential(fs))
           /\ Cardinality(KeyRows("Not set"))
                  = Cardinality(DOMAIN mps \ WithPresentCredential(fs))

\* show-config has printed the tables of a file in which anthropic holds the
\* credential sk-a and openai holds none.
C17_Witness ==
    /\ ShownConfig
    /\ DOMAIN fs.cfg.model_providers = {"openai", "anthropic"}
    /\ fs.cfg.model_providers["anthropic"].api_key = Some("sk-a")
    /\ fs.cfg.model_providers["openai"].api_key = None
    /\ PrintedWith("row", "API Key", "Set")
    /\ PrintedWith("row", "API Key", "Not set")
    /\ PrintedWith("row", "Top K", "0")
    /\ exit_status = Some(0)

====
